---- MODULE Spec2Model ----
(***************************************************************************)
(* Model of models.py: Product, TransactionType, OrderType, Order and the  *)
(* Orders collection (add_order / display_order_with_a_best_price).        *)
(*                                                                         *)
(* A Python dict is modelled as the sequence of its entries [key, val] in  *)
(* insertion order, with unique keys.  An exception is a result record     *)
(* whose field exc names the exception class.  Prices are integers.        *)
(***************************************************************************)
EXTENDS Integers, Sequences, FiniteSets, TLC

VARIABLES
    book,       \* the Orders instance: a record of its attributes
    printed,    \* the lines written to stdout by the most recent add_order
    book2,      \* a second Orders instance (paired run)
    printed2,   \* stdout lines of the most recent add_order on book2
    ctor_args,  \* arguments of a pending Order(...) construction
    ctor_res,   \* outcome of that construction (<<>> while pending)
    pc,         \* per thread: position inside add_order
    t_order,    \* per thread: the argument of the running add_order
    t_id,       \* per thread: the value _get_next_id() returned
    t_iter,     \* per thread: dict iterator of the display loop [size, idx]
    t_result,   \* per thread: the local dict `result` of the display loop
    t_raised,   \* per thread: exception raised by the last add_order
    started,    \* number of add_order calls started by the threads
    completed,  \* number of add_order calls that stored their order
    assigned    \* identifiers under which completed calls stored

vars == <<book, printed, book2, printed2, ctor_args, ctor_res,
          pc, t_order, t_id, t_iter, t_result, t_raised,
          started, completed, assigned>>

seq_vars  == <<book, printed>>
pair_vars == <<book2, printed2>>
ctor_vars == <<ctor_args, ctor_res>>
conc_vars == <<pc, t_order, t_id, t_iter, t_result, t_raised,
               started, completed, assigned>>

---------------------------------------------------------------------------
(* Bounds *)

MaxOrders == 3      \* add_order calls on the sequential book
MaxPairCalls == 2   \* add_order calls on each book of the paired run
MaxCalls == 2       \* add_order calls started by the threads

---------------------------------------------------------------------------
(* Python dict *)

DictHas(d, k) == \E i \in 1..Len(d) : d[i].key = k

DictIndex(d, k) == CHOOSE i \in 1..Len(d) : d[i].key = k

\* d.get(k): the value, or None
None == <<>>
DictGet(d, k) == IF DictHas(d, k) THEN d[DictIndex(d, k)].val ELSE None

\* d[k] = v: an existing key keeps its position, a new key goes last
DictSet(d, k, v) ==
    IF DictHas(d, k)
    THEN [d EXCEPT ![DictIndex(d, k)].val = v]
    ELSE Append(d, [key |-> k, val |-> v])

DictKeys(d) == {d[i].key : i \in 1..Len(d)}

---------------------------------------------------------------------------
(* Product, TransactionType, OrderType *)

Product(name, price) == [name |-> name, price |-> price]

Apple  == Product("Apple", 1)
Banana == Product("Banana", 2)

EnumMember(cls, value) == [cls |-> cls, value |-> value]
Str(s) == [cls |-> "str", value |-> s]

BUY    == EnumMember("TransactionType", "Buy")
SELL   == EnumMember("TransactionType", "Sell")
ADD    == EnumMember("OrderType", "Add")
REMOVE == EnumMember("OrderType", "Remove")

TransactionType == {BUY, SELL}
OrderType == {ADD, REMOVE}

---------------------------------------------------------------------------
(* Order *)

TRANSACTION_TYPE_ERROR_MSG == "Invalid transaction type. It should be \"Buy\" or \"Sell\"."
ORDER_TYPE_ERROR_MSG == "Invalid order type. It should be \"Add\" or \"Remove\"."

Raise(exc, msg) == [exc |-> exc, msg |-> msg, obj |-> <<>>]
Return(obj) == [exc |-> "None", msg |-> "", obj |-> <<obj>>]

\* Order.__init__: `x not in Enum.__members__.values()` compares x with each
\* member by ==, so a plain string equal to a member's value is not a member.
\* variant: order_type is stored without being checked
Order_unchecked_order_type(products, transaction_type, order_type) ==
    IF transaction_type \notin TransactionType
    THEN Raise("TypeError", TRANSACTION_TYPE_ERROR_MSG)
    ELSE Return([products |-> products,
                 transaction_type |-> transaction_type,
                 order_type |-> order_type])

\* variant: order_type is checked before transaction_type
Order_order_type_first(products, transaction_type, order_type) ==
    IF order_type \notin OrderType
    THEN Raise("TypeError", ORDER_TYPE_ERROR_MSG)
    ELSE IF transaction_type \notin TransactionType
    THEN Raise("TypeError", TRANSACTION_TYPE_ERROR_MSG)
    ELSE Return([products |-> products,
                 transaction_type |-> transaction_type,
                 order_type |-> order_type])

Order(products, transaction_type, order_type) ==
    IF transaction_type \notin TransactionType
    THEN Raise("TypeError", TRANSACTION_TYPE_ERROR_MSG)
    ELSE IF order_type \notin OrderType
    THEN Raise("TypeError", ORDER_TYPE_ERROR_MSG)
    ELSE Return([products |-> products,
                 transaction_type |-> transaction_type,
                 order_type |-> order_type])

---------------------------------------------------------------------------
(* Orders *)

OrdersInit == [orders |-> <<>>]

\* variant: the current length is used as the identifier
get_next_id_from_zero(self) == Len(self.orders)

get_next_id(self) == Len(self.orders) + 1

\* total_sum over order.products.items()
RECURSIVE total_sum_over(_, _)
total_sum_over(products, keys) ==
    IF keys = {} THEN 0
    ELSE LET product == CHOOSE p \in keys : TRUE
         IN  products[product] * product.price
               + total_sum_over(products, keys \ {product})

total_sum(order) == total_sum_over(order.products, DOMAIN order.products)

\* variant: the stored total is tested for truthiness
is_unset_falsy_total(result, transaction_type) ==
    \/ DictGet(result, transaction_type) = None
    \/ DictGet(result, transaction_type)[2] = 0

\* `not result.get(order.transaction_type)`: None is falsy, a stored
\* [order_id, total_sum] list has two elements and is truthy
is_unset(result, transaction_type) == DictGet(result, transaction_type) = None

\* variant: a tie replaces the record
is_better_or_equal(best_total, total) == best_total <= total

\* variant: the comparison is reversed
is_better_reversed(best_total, total) == best_total > total

\* `result[order.transaction_type][1] < total_sum`
is_better(best_total, total) == best_total < total

\* the body of the loop over self.orders.items()
scan_step(result, order_id, order) ==
    LET total == total_sum(order)
        tt == order.transaction_type
    IN  IF is_unset(result, tt)
        THEN DictSet(result, tt, <<order_id, total>>)
        ELSE IF is_better(DictGet(result, tt)[2], total)
             THEN DictSet(result, tt, <<order_id, total>>)
             ELSE result

RECURSIVE scan(_, _, _)
scan(items, i, result) ==
    IF i > Len(items) THEN result
    ELSE scan(items, i + 1, scan_step(result, items[i].key, items[i].val))

\* 'Best {transaction_type.value} Order: ID = {details[0]}, Price = {details[1]}'
Line(transaction_type, details) ==
    [label |-> transaction_type.value, id |-> details[1], price |-> details[2]]

\* variant: the lines are written in the enumeration's declaration order
print_lines_sorted(result) ==
    LET present(tt) == IF DictHas(result, tt) THEN <<Line(tt, DictGet(result, tt))>> ELSE <<>>
    IN  present(BUY) \o present(SELL)

print_lines(result) == [i \in 1..Len(result) |-> Line(result[i].key, result[i].val)]

display_order_with_a_best_price(self) == print_lines(scan(self.orders, 1, <<>>))

\* variant: the identifier is taken again when the entry is written
store_at_current_length(self, order_id, order) ==
    [self EXCEPT !.orders = DictSet(self.orders, get_next_id(self), order)]

\* `self.orders[<order_id>] = order`, the subscript already evaluated
store_at(self, order_id, order) ==
    [self EXCEPT !.orders = DictSet(self.orders, order_id, order)]

\* variant: the best-per-type summary is kept on the instance
add_order_store_caching(self, order) ==
    LET orders == DictSet(self.orders, get_next_id(self), order)
    IN  [orders |-> orders, best |-> scan(orders, 1, <<>>)]

\* variant: a Remove order cancels the most recent stored order
add_order_store_cancelling(self, order) ==
    IF order.order_type = REMOVE
    THEN [self EXCEPT !.orders = SubSeq(self.orders, 1, Len(self.orders) - 1)]
    ELSE store_at(self, get_next_id(self), order)

\* `self.orders[self._get_next_id()] = order`
add_order_store(self, order) == store_at(self, get_next_id(self), order)

---------------------------------------------------------------------------
(* Inputs *)

ProductMaps ==
    { <<>>,
      (Apple :> 1),
      (Apple :> 0),
      (Apple :> -1),
      (Banana :> 1),
      (Apple :> 1) @@ (Banana :> 1) }

TransactionTypeArgs == TransactionType \cup {Str("Buy"), Str("invalid_transaction_type"), ADD}
OrderTypeArgs == OrderType \cup {Str("Add"), Str("invalid_order_type"), BUY}

\* orders handed to add_order by the threads
ThreadOrders ==
    { Order((Apple :> 1), BUY, ADD).obj[1],
      Order((Banana :> 1), BUY, REMOVE).obj[1],
      Order((Apple :> 1), SELL, ADD).obj[1] }

---------------------------------------------------------------------------
(* Initial state *)

Threads == {"t1", "t2"}

IdleThreads ==
    /\ pc = [t \in Threads |-> "idle"]
    /\ t_order = [t \in Threads |-> <<>>]
    /\ t_id = [t \in Threads |-> 0]
    /\ t_iter = [t \in Threads |-> [size |-> 0, idx |-> 0]]
    /\ t_result = [t \in Threads |-> <<>>]
    /\ t_raised = [t \in Threads |-> "None"]
    /\ started = 0
    /\ completed = 0
    /\ assigned = <<>>

Init ==
    /\ book = OrdersInit
    /\ printed = <<>>
    /\ book2 = OrdersInit
    /\ printed2 = <<>>
    /\ ctor_args = <<>>
    /\ ctor_res = <<>>
    /\ IdleThreads

---------------------------------------------------------------------------
(* Sequential use of one Orders instance *)

AddOrder ==
    /\ Len(book.orders) < MaxOrders
    /\ \E products \in ProductMaps, tt \in TransactionTypeArgs, ot \in OrderTypeArgs :
         LET made == Order(products, tt, ot)
         IN  /\ made.exc = "None"
             /\ book' = add_order_store(book, made.obj[1])
             /\ printed' = display_order_with_a_best_price(book')
    /\ UNCHANGED <<pair_vars, ctor_vars, conc_vars>>

Next == AddOrder

Spec == Init /\ [][Next]_vars

---------------------------------------------------------------------------
(* Properties of the sequential book *)

Entries == book.orders
NumOrders == Len(book.orders)
StoredOfType(tt) == {i \in 1..NumOrders : Entries[i].val.transaction_type = tt}
Represented(tt) == StoredOfType(tt) # {}

HasLine(lines, tt) == \E i \in 1..Len(lines) : lines[i].label = tt.value
LineOf(lines, tt) == lines[CHOOSE i \in 1..Len(lines) : lines[i].label = tt.value]

\* the stored order of type tt with the maximal total, the lowest identifier on a tie
IsArgmax(i, tt) ==
    /\ i \in StoredOfType(tt)
    /\ \A j \in StoredOfType(tt) :
          \/ total_sum(Entries[j].val) < total_sum(Entries[i].val)
          \/ /\ total_sum(Entries[j].val) = total_sum(Entries[i].val)
             /\ Entries[i].key <= Entries[j].key

\* C1: for every transaction type with a stored order, the reported (ID, total)
\* is the stored order of that type with the maximal total, and among several
\* orders with the maximal total the one with the lowest identifier.
C1_BestIsArgmaxLowestId ==
    \A tt \in TransactionType :
        Represented(tt) =>
            /\ HasLine(printed, tt)
            /\ \E i \in StoredOfType(tt) :
                  /\ IsArgmax(i, tt)
                  /\ LineOf(printed, tt).id = Entries[i].key
                  /\ LineOf(printed, tt).price = total_sum(Entries[i].val)

\* a later order ties the best total of its type and the earlier one is reported
C1_Witness ==
    \E tt \in TransactionType : \E i, j \in StoredOfType(tt) :
        /\ i < j
        /\ IsArgmax(i, tt)
        /\ total_sum(Entries[j].val) = total_sum(Entries[i].val)
        /\ Entries[i].val.products # Entries[j].val.products
        /\ HasLine(printed, tt)
        /\ LineOf(printed, tt).id = Entries[i].key

\* C2: the Nth add_order on a fresh book stores under identifier N: before the
\* call _get_next_id() is N and the book holds N-1 entries, after it N entries,
\* and the identifiers are always exactly 1..N, none repeated.
C2_IdsState ==
    /\ DictKeys(Entries) = 1..NumOrders
    /\ \A i, j \in 1..NumOrders : Entries[i].key = Entries[j].key => i = j
    /\ \A i \in 1..NumOrders : Entries[i].key = i

C2_IdsStep ==
    /\ get_next_id(book) = NumOrders + 1
    /\ Len(book'.orders) = NumOrders + 1
    /\ book'.orders[NumOrders + 1].key = NumOrders + 1
    /\ \A i \in 1..NumOrders : book'.orders[i].key = Entries[i].key

C2_SequentialIds == [](C2_IdsState) /\ [][C2_IdsStep]_seq_vars

C2_Witness ==
    /\ NumOrders = MaxOrders
    /\ DictKeys(Entries) = 1..MaxOrders

\* the position at which a transaction type is first seen among the stored orders
FirstSeen(tt) == CHOOSE i \in StoredOfType(tt) : \A j \in StoredOfType(tt) : i <= j

TypeOfLabel(label) == CHOOSE tt \in TransactionType : tt.value = label

\* C5: every add_order emits, after the insertion, exactly one 'Best <type> Order'
\* line for each transaction type with a stored order and none for the others,
\* in the order in which the types were first seen among the stored orders.
C5_LinesInFirstSeenOrder ==
    /\ \A tt \in TransactionType :
          Cardinality({i \in 1..Len(printed) : printed[i].label = tt.value})
            = IF Represented(tt) THEN 1 ELSE 0
    /\ Len(printed) = Cardinality({tt \in TransactionType : Represented(tt)})
    /\ \A i, j \in 1..Len(printed) :
          i < j => FirstSeen(TypeOfLabel(printed[i].label))
                     < FirstSeen(TypeOfLabel(printed[j].label))

\* the first stored order is a Sell, a Buy came later: the Sell line comes first
C5_Witness ==
    /\ NumOrders >= 3
    /\ Entries[1].val.transaction_type = SELL
    /\ Entries[2].val.transaction_type = BUY
    /\ Len(printed) = 2
    /\ printed[1].label = "Sell"
    /\ printed[2].label = "Buy"

\* the entry stored by the step, and its order
NewEntry == book'.orders[Len(book'.orders)]
NewOrder == NewEntry.val
NewType == NewOrder.transaction_type
OrderWithId(id) == DictGet(Entries, id)

\* C6: an order with an empty products mapping has total 0; the first stored order
\* of its type, it seeds the best record with total 0; as the best, it is replaced
\* only by a later order of that type whose total is strictly greater than 0; and
\* it does not replace an earlier best whose total is 0 or more.
C6_EmptyStep ==
    /\ NewOrder.products = <<>> => total_sum(NewOrder) = 0
    /\ (NewOrder.products = <<>> /\ ~HasLine(printed, NewType)) =>
          /\ HasLine(printed', NewType)
          /\ LineOf(printed', NewType).id = NewEntry.key
          /\ LineOf(printed', NewType).price = 0
    /\ (NewOrder.products = <<>> /\ HasLine(printed, NewType)
          /\ LineOf(printed, NewType).price >= 0) =>
          /\ HasLine(printed', NewType)
          /\ LineOf(printed', NewType) = LineOf(printed, NewType)
    /\ \A tt \in TransactionType :
          (HasLine(printed, tt) /\ OrderWithId(LineOf(printed, tt).id).products = <<>>) =>
              /\ HasLine(printed', tt)
              /\ LineOf(printed', tt) # LineOf(printed, tt)
                    <=> (NewType = tt /\ total_sum(NewOrder) > 0)

C6_EmptyProductsOrder == [][C6_EmptyStep]_seq_vars

\* the first stored order has no products; two later orders of its type with a
\* non-empty mapping, one with total 0 and one with a negative total, were
\* stored, and the empty order is still reported as best with total 0
C6_Witness ==
    /\ NumOrders = 3
    /\ Entries[1].val.products = <<>>
    /\ Entries[2].val.products # <<>>
    /\ total_sum(Entries[2].val) = 0
    /\ Entries[2].val.transaction_type = Entries[1].val.transaction_type
    /\ Entries[3].val.products # <<>>
    /\ total_sum(Entries[3].val) < 0
    /\ Entries[3].val.transaction_type = Entries[1].val.transaction_type
    /\ LineOf(printed, Entries[1].val.transaction_type).id = 1
    /\ LineOf(printed, Entries[1].val.transaction_type).price = 0

\* C8: a sequential add_order changes the book only by adding the entry
\* (len+1 -> order): every stored (identifier, order) pair is unchanged, the book
\* does not shrink, and the best-per-type summary is not stored on the book.
C8_FrameStep ==
    /\ Len(book'.orders) = NumOrders + 1
    /\ \A i \in 1..NumOrders : book'.orders[i] = Entries[i]
    /\ NewEntry.key = NumOrders + 1
    /\ NewOrder \in {Order(p, tt, ot).obj[1] :
                       p \in ProductMaps, tt \in TransactionType, ot \in OrderType}
    /\ DOMAIN book' = {"orders"}
    /\ book' = [orders |-> book'.orders]

C8_AddOrderFrame == [](DOMAIN book = {"orders"}) /\ [][C8_FrameStep]_seq_vars

C8_Witness ==
    /\ NumOrders = 3
    /\ Len(printed) = 2
    /\ DOMAIN book = {"orders"}

\* C10: from one add_order to the next the reported best total of a type never
\* decreases, the reported ID of a type changes only when the call adds an order
\* of that type with a total strictly greater than the reported one (and becomes
\* the new identifier), and the report for the other type is unchanged.
C10_MonotoneStep ==
    \A tt \in TransactionType :
        /\ HasLine(printed, tt) =>
              /\ HasLine(printed', tt)
              /\ LineOf(printed', tt).price >= LineOf(printed, tt).price
              /\ LineOf(printed', tt).id # LineOf(printed, tt).id =>
                    /\ NewType = tt
                    /\ total_sum(NewOrder) > LineOf(printed, tt).price
                    /\ LineOf(printed', tt).id = NewEntry.key
                    /\ LineOf(printed', tt).price = total_sum(NewOrder)
        /\ NewType # tt =>
              /\ HasLine(printed', tt) <=> HasLine(printed, tt)
              /\ HasLine(printed, tt) => LineOf(printed', tt) = LineOf(printed, tt)

C10_BestIsMonotone == [][C10_MonotoneStep]_seq_vars

\* the best of one type was replaced by a later, strictly greater order while
\* the other type kept its report
C10_Witness ==
    \E tt, other \in TransactionType :
        /\ tt # other
        /\ NumOrders = 3
        /\ Entries[1].val.transaction_type = tt
        /\ Entries[2].val.transaction_type = other
        /\ Entries[3].val.transaction_type = tt
        /\ total_sum(Entries[3].val) > total_sum(Entries[1].val)
        /\ LineOf(printed, tt).id = 3
        /\ LineOf(printed, other).id = 2

---------------------------------------------------------------------------
(* Construction of an Order *)

\* a caller evaluates Order(products, transaction_type, order_type)
OrderCall ==
    /\ \E products \in ProductMaps, tt \in TransactionTypeArgs, ot \in OrderTypeArgs :
         ctor_args' = [products |-> products, transaction_type |-> tt, order_type |-> ot]
    /\ ctor_res' = <<>>
    /\ UNCHANGED <<seq_vars, pair_vars, conc_vars>>

\* Order.__init__ runs to its return or its raise
OrderInit ==
    /\ ctor_args # <<>>
    /\ ctor_res = <<>>
    /\ ctor_res' = <<Order(ctor_args.products, ctor_args.transaction_type,
                           ctor_args.order_type)>>
    /\ UNCHANGED <<ctor_args, seq_vars, pair_vars, conc_vars>>

NextCtor == OrderCall \/ OrderInit

SpecCtor == Init /\ [][NextCtor]_vars

Constructed == ctor_res # <<>>
Outcome == ctor_res[1]
ValidTransactionType == ctor_args.transaction_type \in {BUY, SELL}
ValidOrderType == ctor_args.order_type \in {ADD, REMOVE}

\* C3 as stated: an invalid transaction_type fails with an InvalidTransactionType
\* error, an invalid order_type (transaction_type valid) with an InvalidOrderType
\* error, each with its message, two distinct error kinds, no Order produced.
C3_AsStated ==
    Constructed =>
        /\ ~ValidTransactionType =>
              /\ Outcome.exc = "InvalidTransactionType"
              /\ Outcome.msg = "Invalid transaction type. It should be \"Buy\" or \"Sell\"."
              /\ Outcome.obj = <<>>
        /\ (ValidTransactionType /\ ~ValidOrderType) =>
              /\ Outcome.exc = "InvalidOrderType"
              /\ Outcome.msg = "Invalid order type. It should be \"Add\" or \"Remove\"."
              /\ Outcome.obj = <<>>

\* C3 amended: both failures are a TypeError, told apart by the message alone;
\* an invalid transaction_type gives the transaction-type message, an invalid
\* order_type (transaction_type valid) the order-type message, no Order produced.
C3_TypeErrorWithMessage ==
    Constructed =>
        /\ ~ValidTransactionType =>
              /\ Outcome.exc = "TypeError"
              /\ Outcome.msg = "Invalid transaction type. It should be \"Buy\" or \"Sell\"."
              /\ Outcome.obj = <<>>
        /\ (ValidTransactionType /\ ~ValidOrderType) =>
              /\ Outcome.exc = "TypeError"
              /\ Outcome.msg = "Invalid order type. It should be \"Add\" or \"Remove\"."
              /\ Outcome.obj = <<>>
        /\ (ValidTransactionType /\ ValidOrderType) =>
              /\ Outcome.exc = "None"
              /\ Outcome.obj = <<[products |-> ctor_args.products,
                                  transaction_type |-> ctor_args.transaction_type,
                                  order_type |-> ctor_args.order_type]>>

\* a plain string equal to a member's value was passed as order_type and rejected
C3_Witness ==
    /\ Constructed
    /\ ctor_args.transaction_type = SELL
    /\ ctor_args.order_type = Str("Add")
    /\ Outcome.exc = "TypeError"
    /\ Outcome.obj = <<>>

\* C4: transaction_type is checked before order_type: with an invalid
\* transaction_type the transaction-type error is raised whatever order_type is,
\* and the order-type error is raised only with a valid transaction_type.
C4_TransactionTypeFirst ==
    Constructed =>
        /\ ~ValidTransactionType =>
              Outcome.msg = "Invalid transaction type. It should be \"Buy\" or \"Sell\"."
        /\ Outcome.msg = "Invalid order type. It should be \"Add\" or \"Remove\"." =>
              (ValidTransactionType /\ ~ValidOrderType)

\* both arguments invalid: the transaction-type error is the one raised
C4_Witness ==
    /\ Constructed
    /\ ~ValidTransactionType
    /\ ~ValidOrderType
    /\ Outcome.exc = "TypeError"
    /\ Outcome.msg = "Invalid transaction type. It should be \"Buy\" or \"Sell\"."

---------------------------------------------------------------------------
(* Two books fed the same orders up to order_type *)

AddOrderPair ==
    /\ Len(book.orders) < MaxPairCalls
    /\ \E products \in ProductMaps, tt \in TransactionTypeArgs,
          ot1 \in OrderTypeArgs, ot2 \in OrderTypeArgs :
         LET made1 == Order(products, tt, ot1)
             made2 == Order(products, tt, ot2)
         IN  /\ made1.exc = "None"
             /\ made2.exc = "None"
             /\ book' = add_order_store(book, made1.obj[1])
             /\ printed' = display_order_with_a_best_price(book')
             /\ book2' = add_order_store(book2, made2.obj[1])
             /\ printed2' = display_order_with_a_best_price(book2')
    /\ UNCHANGED <<ctor_vars, conc_vars>>

NextPair == AddOrderPair

SpecPair == Init /\ [][NextPair]_vars

\* C9: two runs of the same add_order sequence whose orders differ only in
\* order_type assign the same identifiers and report the same best (ID, total)
\* per type after every call; a Remove order removes nothing and is itself
\* stored and eligible as best.
C9_OrderTypeInert ==
    /\ Len(book.orders) = Len(book2.orders)
    /\ \A i \in 1..Len(book.orders) :
          /\ i \in 1..Len(book2.orders)
          /\ book.orders[i].key = book2.orders[i].key
          /\ book.orders[i].val.products = book2.orders[i].val.products
          /\ book.orders[i].val.transaction_type = book2.orders[i].val.transaction_type
    /\ printed = printed2

\* a Remove order stored after an Add order of its type is reported as best in
\* one run, the Add order that stands in its place in the other
C9_Witness ==
    /\ Len(book.orders) = 2
    /\ book.orders[2].val.order_type = REMOVE
    /\ book2.orders[2].val.order_type = ADD
    /\ book.orders[1].val.order_type = ADD
    /\ book2.orders[1].val.order_type = REMOVE
    /\ book.orders[1].val.transaction_type = book.orders[2].val.transaction_type
    /\ Len(printed) = 1
    /\ printed[1].id = 2
    /\ printed2 = printed

---------------------------------------------------------------------------
(* Threads calling add_order on one book without a lock *)

Leave(t, exc) ==
    /\ pc' = [pc EXCEPT ![t] = "idle"]
    /\ t_raised' = [t_raised EXCEPT ![t] = exc]
    /\ t_order' = [t_order EXCEPT ![t] = <<>>]
    /\ t_id' = [t_id EXCEPT ![t] = 0]
    /\ t_iter' = [t_iter EXCEPT ![t] = [size |-> 0, idx |-> 0]]
    /\ t_result' = [t_result EXCEPT ![t] = <<>>]

\* a thread enters add_order(order)
Call(t) ==
    /\ pc[t] = "idle"
    /\ started < MaxCalls
    /\ \E order \in ThreadOrders : t_order' = [t_order EXCEPT ![t] = order]
    /\ pc' = [pc EXCEPT ![t] = "get_id"]
    /\ t_raised' = [t_raised EXCEPT ![t] = "None"]
    /\ started' = started + 1
    /\ UNCHANGED <<seq_vars, pair_vars, ctor_vars, t_id, t_iter, t_result,
                   completed, assigned>>

\* the subscript self._get_next_id() is evaluated
GetNextId(t) ==
    /\ pc[t] = "get_id"
    /\ t_id' = [t_id EXCEPT ![t] = get_next_id(book)]
    /\ pc' = [pc EXCEPT ![t] = "store"]
    /\ UNCHANGED <<seq_vars, pair_vars, ctor_vars, t_order, t_iter, t_result,
                   t_raised, started, completed, assigned>>

\* the order is stored under the identifier read before
Store(t) ==
    /\ pc[t] = "store"
    /\ book' = store_at(book, t_id[t], t_order[t])
    /\ completed' = completed + 1
    /\ assigned' = Append(assigned, t_id[t])
    /\ pc' = [pc EXCEPT ![t] = "display"]
    /\ UNCHANGED <<printed, pair_vars, ctor_vars, t_order, t_id, t_iter, t_result,
                   t_raised, started>>

\* display_order_with_a_best_price: result = {} and the iterator over
\* self.orders.items() is created
DisplayStart(t) ==
    /\ pc[t] = "display"
    /\ t_result' = [t_result EXCEPT ![t] = <<>>]
    /\ t_iter' = [t_iter EXCEPT ![t] = [size |-> Len(book.orders), idx |-> 1]]
    /\ pc' = [pc EXCEPT ![t] = "scan"]
    /\ UNCHANGED <<seq_vars, pair_vars, ctor_vars, t_order, t_id, t_raised,
                   started, completed, assigned>>

\* one turn of the loop: the iterator raises RuntimeError when the dict changed
\* size since its creation, the loop ends and the lines are written when it is
\* exhausted, the body runs on the next entry otherwise
ScanNext(t) ==
    /\ pc[t] = "scan"
    /\ \/ /\ Len(book.orders) # t_iter[t].size
          /\ Leave(t, "RuntimeError")
          /\ UNCHANGED <<seq_vars>>
       \/ /\ Len(book.orders) = t_iter[t].size
          /\ t_iter[t].idx > Len(book.orders)
          /\ printed' = print_lines(t_result[t])
          /\ Leave(t, "None")
          /\ UNCHANGED <<book>>
       \/ /\ Len(book.orders) = t_iter[t].size
          /\ t_iter[t].idx <= Len(book.orders)
          /\ t_result' = [t_result EXCEPT ![t] =
                            scan_step(@, book.orders[t_iter[t].idx].key,
                                         book.orders[t_iter[t].idx].val)]
          /\ t_iter' = [t_iter EXCEPT ![t].idx = @ + 1]
          /\ UNCHANGED <<seq_vars, pc, t_order, t_id, t_raised>>
    /\ UNCHANGED <<pair_vars, ctor_vars, started, completed, assigned>>

NextThreads ==
    \E t \in Threads :
        Call(t) \/ GetNextId(t) \/ Store(t) \/ DisplayStart(t) \/ ScanNext(t)

SpecThreads == Init /\ [][NextThreads]_vars

AssignedIds == {assigned[i] : i \in 1..Len(assigned)}

\* C7: add_order is not safe under concurrent calls: two calls that both read
\* len(orders)+1 before either writes get the same identifier and one stored
\* order is overwritten without any error, so that two calls have completed
\* and the book holds fewer than two new entries.
C7_DuplicateIdOverwrites ==
    /\ completed = Len(assigned)
    /\ Len(book.orders) = Cardinality(AssignedIds)
    /\ (\E i, j \in 1..Len(assigned) : i # j /\ assigned[i] = assigned[j])
          => Len(book.orders) < completed
    /\ \A t \in Threads :
          (pc[t] = "store" /\ t_id[t] <= Len(book.orders))
              => DictHas(book.orders, t_id[t])
    /\ \A t1, t2 \in Threads :
          (t1 # t2 /\ pc[t1] = "store" /\ pc[t2] = "store" /\ completed = 0)
              => t_id[t1] = t_id[t2]

\* both calls have returned without an exception and the book holds one entry
C7_Witness ==
    /\ completed = 2
    /\ \A t \in Threads : pc[t] = "idle" /\ t_raised[t] = "None"
    /\ assigned = <<1, 1>>
    /\ Len(book.orders) = 1

====
